---- MODULE Spec2Model ----
(***************************************************************************)
(* The viewer live-tail bridge of accordkit/examples                      *)
(* (src/file-sink-demo/index.ts, lines 64-306): LiveTailSink fans every   *)
(* tracer event out to the durable sinks and to the SSE observers,        *)
(* startDemoTraffic emits a synthetic trace on a timer, handleShutdown    *)
(* tears everything down on SIGINT/SIGTERM.                               *)
(*                                                                         *)
(* Node runs one callback at a time, so one action is one callback run to *)
(* its next await: the synchronous part of a call (the broadcast and the  *)
(* first sink's write inside LiveTailSink.write, stopDemo and the first   *)
(* sink's close inside the shutdown callback) belongs to the action that  *)
(* makes the call.  A promise that settles later is a separate action.    *)
(*                                                                         *)
(* Tracer (package @accordkit/tracer) is not part of the repository: a    *)
(* tracer call is taken to hand one event to sink.write and to settle as  *)
(* that write settles, tracer.close to call sink.close and settle as it   *)
(* settles; spanStart returns its token synchronously and is not awaited. *)
(***************************************************************************)
EXTENDS Integers, Sequences, FiniteSets, TLC

\* ---------------------------------------------------------------- bounds
MaxSinks == 2
MaxSeq == 2
MaxClients == 2
MaxSignals == 2
MaxFlushes == 1
MaxLen == 3

\* ------------------------------------------------------------ the sinks
\* A durable sink as LiveTailSink sees it: what its write does, which of the
\* optional flush/close it exposes, and what that shutdown action does (a
\* sink that cannot reach its store fails its flush as it fails its close).
Buffered == [wr |-> "ok", hasFlush |-> TRUE, hasClose |-> TRUE, sd |-> "ok"]
ThrowOnWrite == [wr |-> "throw", hasFlush |-> FALSE, hasClose |-> FALSE, sd |-> "ok"]
ThrowOnClose == [wr |-> "ok", hasFlush |-> TRUE, hasClose |-> TRUE, sd |-> "throw"]
FlushOnly == [wr |-> "ok", hasFlush |-> TRUE, hasClose |-> FALSE, sd |-> "ok"]
WriteOnly == [wr |-> "ok", hasFlush |-> FALSE, hasClose |-> FALSE, sd |-> "ok"]
\* A sink whose write resolves at one call and throws at another (a file
\* sink whose disk fills up).
Flaky == [wr |-> "either", hasFlush |-> TRUE, hasClose |-> TRUE, sd |-> "ok"]

SinkKinds == {Buffered, ThrowOnWrite, ThrowOnClose, FlushOnly, WriteOnly}

SinkLists == UNION {[1..n -> SinkKinds] : n \in 0..MaxSinks}

\* An emission that records the usage between the tool call and its result.
EmitStepsUsageFirst ==
  <<"message_system", "span_start", "message_user", "tool_call",
    "usage", "tool_result", "span_end">>

\* The tracer calls of one emission, in program order.
EmitSteps ==
  <<"message_system", "span_start", "message_user", "tool_call",
    "tool_result", "usage", "span_end">>

\* spanStart is the one call emitSampleTrace does not await.
Awaited(k) == EmitSteps[k] # "span_start"

\* The next awaited tracer call after call k (0 when k was the last one).
RECURSIVE NextCall(_)
NextCall(k) ==
  IF k >= Len(EmitSteps) THEN 0
  ELSE IF Awaited(k + 1) THEN k + 1 ELSE NextCall(k + 1)

\* ------------------------------------------------- the timer's period
\* An environment variable is unset, or set to a text (its characters).
Unset == [set |-> FALSE, text |-> <<>>]
Text(t) == [set |-> TRUE, text |-> t]

DigitChars == <<"0", "1", "2", "3", "4", "5", "6", "7", "8", "9">>
IsDigit(c) == \E d \in 1..10 : DigitChars[d] = c
DigitValue(c) == (CHOOSE d \in 1..10 : DigitChars[d] = c) - 1

\* Number(string) first strips the white space at both ends.
RECURSIVE TrimStart(_)
TrimStart(t) ==
  IF t # <<>> /\ Head(t) = " " THEN TrimStart(Tail(t)) ELSE t

RECURSIVE TrimEnd(_)
TrimEnd(t) ==
  IF t # <<>> /\ t[Len(t)] = " " THEN TrimEnd(SubSeq(t, 1, Len(t) - 1)) ELSE t

\* A number as the timer code tells numbers apart: its sign, whether its
\* magnitude is above 2^31 - 1 (the largest delay a Node timer takes), and
\* the magnitude when it is not.
TimeoutMax == 2147483647
Small(v) == [neg |-> FALSE, big |-> FALSE, val |-> v]
Big == [neg |-> FALSE, big |-> TRUE, val |-> 0]
Negative(n) == IF n.val = 0 /\ ~n.big THEN n ELSE [n EXCEPT !.neg = TRUE]

\* The value of a run of decimal digits.
RECURSIVE Decimal(_)
Decimal(t) ==
  IF t = <<>> THEN Small(0)
  ELSE LET p == Decimal(SubSeq(t, 1, Len(t) - 1))
           d == DigitValue(t[Len(t)])
       IN IF p.big \/ p.val > (TimeoutMax - d) \div 10 THEN Big
          ELSE Small(10 * p.val + d)

AllDigits(t) == t # <<>> /\ \A k \in 1..Len(t) : IsDigit(t[k])

InfinityText == <<"I", "n", "f", "i", "n", "i", "t", "y">>

Finite(n) == [kind |-> "finite", num |-> n]
NotANumber == [kind |-> "NaN", num |-> Small(0)]
Infinite == [kind |-> "Infinity", num |-> Small(0)]

\* Number(raw) for a string of the characters modelled here: the empty and
\* the blank string are 0, a decimal integer with an optional minus sign is
\* its value, Infinity is infinite, anything else is NaN.
Number(t) ==
  LET u == TrimEnd(TrimStart(t))
  IN IF u = <<>> THEN Finite(Small(0))
     ELSE IF u = InfinityText \/ u = <<"-">> \o InfinityText THEN Infinite
     ELSE IF AllDigits(u) THEN Finite(Decimal(u))
     ELSE IF Head(u) = "-" /\ AllDigits(Tail(u)) THEN Finite(Negative(Decimal(Tail(u))))
     ELSE NotANumber

DefaultIntervalMs == 2000
FloorMs == 250

\* readNumber(raw, fallback): `!raw` holds of undefined and of "".
readNumber(raw, fallback) ==
  IF ~raw.set \/ raw.text = <<>> THEN Small(fallback)
  ELSE IF Number(raw.text).kind = "finite" THEN Number(raw.text).num
  ELSE Small(fallback)

\* n >= k, for a k of at most 2^31 - 1.
AtLeast(n, k) == ~n.neg /\ (n.big \/ n.val >= k)

\* Math.max(n, k).
Max(n, k) == IF AtLeast(n, k) THEN n ELSE Small(k)

\* The delay a Node timer runs with: a delay above 2^31 - 1 or below 1 is
\* set to 1.
setInterval(delay) ==
  IF AtLeast(delay, 1) /\ ~delay.big THEN delay.val ELSE 1

\* Lines 121 and 218: the period of the timer startDemoTraffic arms.
timerPeriod(raw) == setInterval(Max(readNumber(raw, DefaultIntervalMs), FloorMs))

Emitters == {"main", "timer"}
Conns == 1..MaxClients

VARIABLES
  sinks,            \* LiveTailSink.sinks, fixed at construction
  em,               \* the two places emitSampleTrace runs: main and the timer
  inFlight,         \* startDemoTraffic's guard
  seq,              \* startDemoTraffic's counter
  timerArmed,       \* the interval timer exists and was not cleared
  lastTick,         \* what the last timer callback did
  started,          \* the sequence numbers of the emissions, in order of start
  env,              \* process.env.ACCORDKIT_LIVE_INTERVAL_MS
  period,           \* the period of the interval timer in ms, 0 before it is armed
  handlers,         \* handleShutdown has registered the signal handlers
  exitCode,         \* process.exitCode
  proc,             \* "running", "exited" (process.exit) or "killed" (signal)
  exitStatus,       \* the status passed to process.exit, -1 before
  wseq,             \* LiveTailSink.write calls so far; a call's number is its ticket
  wdone,            \* write calls settled so far
  lastDone,         \* the write call that settled last
  sk,               \* per sink: write invocations, last and highest ticket handed
  sdc,              \* per sink: close and flush invocations
  clients,          \* the Set<Response> of startLiveServer, in insertion order
  conn,             \* per connection: "new", "open", "closed" (by the peer),
                    \* "gone" (close event handled), "ended" (res.end())
  lastBroadcast,    \* the last call of broadcast
  firstChunk,       \* per connection: the first chunk of body written to it,
                    \* "none", "blank" (the "\n" of line 169) or "payload"
  serverListening,  \* the http server still has its listening handle
  runs,             \* one record per run of the shutdown callback
  flushes,          \* one record per call of LiveTailSink.flush
  stopCalls,        \* calls of stopDemo
  tracerCloseCalls, \* calls of tracer.close
  liveCloseCalls    \* calls of live.close

vars ==
  <<sinks, em, inFlight, seq, timerArmed, lastTick, started, env, period, handlers,
    exitCode, proc,
    exitStatus, wseq, wdone, lastDone, sk, sdc, clients, conn, lastBroadcast,
    firstChunk, serverListening, runs, flushes, stopCalls, tracerCloseCalls,
    liveCloseCalls>>

N == Len(sinks)
Alive == proc = "running"
Range(s) == {s[j] : j \in DOMAIN s}

\* ------------------------------------------------------- Broadcast Hub
\* ServerResponse.write on a connection the peer has closed reports the error
\* to its callback only: nothing is delivered and nothing is thrown.
ClientWrite(status) == IF status = "open" THEN "delivered" ELSE "dropped"

\* broadcast(event): one payload, written to every client of the set in
\* insertion order; the set itself is left as it is.  The result is the
\* event, the connections client.write was called on, in order, and the
\* connections the payload reached.
broadcast(tk) ==
  [ev |-> tk,
   written |-> clients,
   delivered |-> {c \in Range(clients) : ClientWrite(conn[c]) = "delivered"}]

\* The first chunks after a broadcast: the payload is the first chunk of a
\* client that was written nothing before.
Chunked ==
  [c \in Conns |->
     IF c \in Range(clients) /\ firstChunk[c] = "none" THEN "payload"
     ELSE firstChunk[c]]

\* --------------------------------------------------- Sink Multiplexer
\* A multiplexer that hands every sink after the first its own copy of the
\* event (ticket 0: not the event write was called with).
HandedCopy(s, i, tk) ==
  [s EXCEPT ![i] = [calls |-> @.calls + 1,
                    last |-> IF i = 1 THEN tk ELSE 0,
                    high |-> IF tk > @.high THEN tk ELSE @.high]]

\* sink i is handed the event of ticket tk.
Handed(s, i, tk) ==
  [s EXCEPT ![i] = [calls |-> @.calls + 1,
                    last |-> tk,
                    high |-> IF tk > @.high THEN tk ELSE @.high]]

\* LiveTailSink.write up to its first await: push(event), then sinks[0].write.
Calling(s, k) ==
  [st |-> "run", seq |-> s, step |-> k,
   i |-> IF N = 0 THEN 0 ELSE 1,
   ticket |-> wseq + 1,
   calls |-> [j \in 1..N |-> IF j = 1 THEN 1 ELSE 0]]

\* A write that hands the event to the sinks first and pushes it only when
\* they have all settled.
writeSinksFirst(t, s, k) ==
  /\ wseq' = wseq + 1
  /\ lastBroadcast' = IF N = 0 THEN broadcast(wseq + 1) ELSE lastBroadcast
  /\ firstChunk' = IF N = 0 THEN Chunked ELSE firstChunk
  /\ sk' = IF N = 0 THEN sk ELSE Handed(sk, 1, wseq + 1)
  /\ em' = [em EXCEPT ![t] = Calling(s, k)]

write(t, s, k) ==
  /\ wseq' = wseq + 1
  /\ lastBroadcast' = broadcast(wseq + 1)
  /\ firstChunk' = Chunked
  /\ sk' = IF N = 0 THEN sk ELSE Handed(sk, 1, wseq + 1)
  /\ em' = [em EXCEPT ![t] = Calling(s, k)]

Settled(e, threw) == [ticket |-> e.ticket, calls |-> e.calls, raised |-> threw]

Idle == [st |-> "idle", seq |-> 0, step |-> 0, i |-> 0, ticket |-> 0, calls |-> <<>>]

\* ---------------------------------------------------------------- Init
\* main() has run to its first await: the server listens, the timer is armed
\* (line 138) and emitSampleTrace(tracer, 0) has made its first tracer call
\* (line 141).  No connection can have been accepted yet.
Started(lists) ==
  /\ sinks \in lists
  /\ em = [t \in Emitters |->
             IF t = "main"
             THEN [st |-> "run", seq |-> 0, step |-> 1,
                   i |-> IF Len(sinks) = 0 THEN 0 ELSE 1,
                   ticket |-> 1,
                   calls |-> [j \in 1..Len(sinks) |-> IF j = 1 THEN 1 ELSE 0]]
             ELSE Idle]
  /\ inFlight = FALSE
  /\ seq = 1
  /\ timerArmed = TRUE
  /\ lastTick = "none"
  /\ started = <<0>>
  /\ env = Unset
  /\ period = timerPeriod(Unset)
  /\ handlers = FALSE
  /\ exitCode = 0
  /\ proc = "running"
  /\ exitStatus = -1
  /\ wseq = 1
  /\ wdone = 0
  /\ lastDone = [ticket |-> 0, calls |-> <<>>, raised |-> FALSE]
  /\ sk = [j \in 1..Len(sinks) |->
             IF j = 1 THEN [calls |-> 1, last |-> 1, high |-> 1]
             ELSE [calls |-> 0, last |-> 0, high |-> 0]]
  /\ sdc = [j \in 1..Len(sinks) |-> [close |-> 0, flush |-> 0]]
  /\ clients = <<>>
  /\ conn = [c \in Conns |-> "new"]
  /\ firstChunk = [c \in Conns |-> "none"]
  /\ lastBroadcast =
       [ev |-> 1, written |-> <<>>, delivered |-> {}]
  /\ serverListening = TRUE
  /\ runs = <<>>
  /\ flushes = <<>>
  /\ stopCalls = 0
  /\ tracerCloseCalls = 0
  /\ liveCloseCalls = 0

Init == Started(SinkLists)

genVars == <<inFlight, seq, timerArmed, lastTick, started, env, period>>
hubVars == <<clients, conn, serverListening>>
shutVars == <<runs, flushes, stopCalls, tracerCloseCalls, liveCloseCalls, sdc>>
procVars == <<proc, exitStatus>>

\* ------------------------------------------------- LiveTailSink.write
\* The write call of emitter t has no sink left to await.
WriteComplete(t) ==
  /\ em[t].st = "run"
  /\ IF em[t].i = 0 THEN TRUE
     ELSE em[t].i = N /\ sinks[em[t].i].wr # "throw"

\* The awaited sink write settles and the loop goes on: the next sink's write
\* is invoked with the same event.
SinkWriteNext(t) ==
  /\ Alive
  /\ em[t].st = "run"
  /\ em[t].i >= 1
  /\ em[t].i < N
  /\ sinks[em[t].i].wr # "throw"
  /\ em' = [em EXCEPT ![t].i = @ + 1,
                      ![t].calls[em[t].i + 1] = @ + 1]
  /\ sk' = Handed(sk, em[t].i + 1, em[t].ticket)
  /\ UNCHANGED <<sinks, wseq, wdone, lastDone, lastBroadcast, firstChunk, handlers, exitCode>>
  /\ UNCHANGED <<genVars, hubVars, shutVars, procVars>>

\* A generator that clears its guard in .then instead of .finally: a failed
\* emission leaves it set.
SinkWriteThrowsGuardKept(t) ==
  /\ Alive
  /\ em[t].st = "run"
  /\ em[t].i >= 1
  /\ sinks[em[t].i].wr # "ok"
  /\ wdone' = wdone + 1
  /\ lastDone' = Settled(em[t], TRUE)
  /\ IF t = "main"
     THEN /\ em' = [em EXCEPT ![t].st = "failed", ![t].i = 0]
          /\ exitCode' = 1
     ELSE /\ em' = [em EXCEPT ![t] = Idle]
          /\ UNCHANGED exitCode
  /\ UNCHANGED <<sinks, wseq, sk, lastBroadcast, firstChunk, handlers, seq, timerArmed, lastTick,
                 started, env, period,
                 inFlight>>
  /\ UNCHANGED <<hubVars, shutVars, procVars>>

\* The awaited sink write throws or rejects: the await rethrows, the loop is
\* left and the write call rejects.  emitSampleTrace catches nothing, so the
\* emission rejects too: main() rejects into its catch (exitCode 1, line 305),
\* the timer's emission into .catch/.finally (guard cleared, line 216).
SinkWriteThrows(t) ==
  /\ Alive
  /\ em[t].st = "run"
  /\ em[t].i >= 1
  /\ sinks[em[t].i].wr # "ok"
  /\ wdone' = wdone + 1
  /\ lastDone' = Settled(em[t], TRUE)
  /\ IF t = "main"
     THEN /\ em' = [em EXCEPT ![t].st = "failed", ![t].i = 0]
          /\ exitCode' = 1
          /\ UNCHANGED inFlight
     ELSE /\ em' = [em EXCEPT ![t] = Idle]
          /\ inFlight' = FALSE
          /\ UNCHANGED exitCode
  /\ UNCHANGED <<sinks, wseq, sk, lastBroadcast, firstChunk, handlers, seq, timerArmed, lastTick,
                 started, env, period>>
  /\ UNCHANGED <<hubVars, shutVars, procVars>>

\* The write call resolves and emitSampleTrace makes its next tracer call.
NextTracerCall(t) ==
  /\ Alive
  /\ WriteComplete(t)
  /\ NextCall(em[t].step) # 0
  /\ wdone' = wdone + 1
  /\ lastDone' = Settled(em[t], FALSE)
  /\ write(t, em[t].seq, NextCall(em[t].step))
  /\ UNCHANGED <<sinks, handlers, exitCode>>
  /\ UNCHANGED <<genVars, hubVars, shutVars, procVars>>

\* The last write call (spanEnd) resolves: the emission is over.  In main the
\* next statement registers the signal handlers (line 143); the timer's
\* emission clears the guard in .finally.
EmissionDone(t) ==
  /\ Alive
  /\ WriteComplete(t)
  /\ NextCall(em[t].step) = 0
  /\ wdone' = wdone + 1
  /\ lastDone' = Settled(em[t], FALSE)
  /\ IF t = "main"
     THEN /\ em' = [em EXCEPT ![t].st = "done", ![t].i = 0]
          /\ handlers' = TRUE
          /\ UNCHANGED inFlight
     ELSE /\ em' = [em EXCEPT ![t] = Idle]
          /\ inFlight' = FALSE
          /\ UNCHANGED handlers
  /\ UNCHANGED <<sinks, wseq, sk, lastBroadcast, firstChunk, exitCode, seq, timerArmed, lastTick,
                 started, env, period>>
  /\ UNCHANGED <<hubVars, shutVars, procVars>>

\* --------------------------------------------------- startDemoTraffic
\* A callback that takes the next sequence number before it looks at the
\* guard, so that a skipped tick is made up for by the next emission.
TickCounted ==
  /\ Alive
  /\ timerArmed
  /\ \/ /\ inFlight
        /\ seq <= MaxSeq
        /\ seq' = seq + 1
        /\ lastTick' = "skipped"
        /\ UNCHANGED <<em, inFlight, wseq, sk, lastBroadcast, firstChunk, started>>
     \/ /\ ~inFlight
        /\ seq <= MaxSeq
        /\ inFlight' = TRUE
        /\ seq' = seq + 1
        /\ lastTick' = "started"
        /\ started' = Append(started, seq)
        /\ write("timer", seq, 1)
  /\ UNCHANGED <<sinks, timerArmed, wdone, lastDone, handlers, exitCode, env,
                 period>>
  /\ UNCHANGED <<hubVars, shutVars, procVars>>

\* A callback that increments the counter before it reads it (++seq).
TickPreIncrement ==
  /\ Alive
  /\ timerArmed
  /\ \/ /\ inFlight
        /\ lastTick' = "skipped"
        /\ UNCHANGED <<em, inFlight, seq, wseq, sk, lastBroadcast, firstChunk, started>>
     \/ /\ ~inFlight
        /\ seq <= MaxSeq
        /\ inFlight' = TRUE
        /\ seq' = seq + 1
        /\ lastTick' = "started"
        /\ started' = Append(started, seq + 1)
        /\ write("timer", seq + 1, 1)
  /\ UNCHANGED <<sinks, timerArmed, wdone, lastDone, handlers, exitCode, env,
                 period>>
  /\ UNCHANGED <<hubVars, shutVars, procVars>>

\* The setInterval callback.
Tick ==
  /\ Alive
  /\ timerArmed
  /\ \/ /\ inFlight
        /\ lastTick' = "skipped"
        /\ UNCHANGED <<em, inFlight, seq, wseq, sk, lastBroadcast, firstChunk, started>>
     \/ /\ ~inFlight
        /\ seq <= MaxSeq
        /\ inFlight' = TRUE
        /\ seq' = seq + 1
        /\ lastTick' = "started"
        /\ started' = Append(started, seq)
        /\ write("timer", seq, 1)
  /\ UNCHANGED <<sinks, timerArmed, wdone, lastDone, handlers, exitCode, env,
                 period>>
  /\ UNCHANGED <<hubVars, shutVars, procVars>>

\* ------------------------------------------------ GET /api/events
\* res.write(chunk) of the GET handler: the chunk is the first of the body
\* unless one was written before.
ResWrite(c, chunk) ==
  [firstChunk EXCEPT ![c] = IF @ = "none" THEN chunk ELSE @]

\* A handler that also sends the new observer the last event broadcast.
ConnectReplay(c) ==
  /\ Alive
  /\ serverListening
  /\ conn[c] = "new"
  /\ \A d \in Conns : d < c => conn[d] # "new"
  /\ conn' = [conn EXCEPT ![c] = "open"]
  /\ clients' = Append(clients, c)
  /\ lastBroadcast' = [lastBroadcast EXCEPT !.written = Append(@, c),
                                            !.delivered = @ \cup {c}]
  /\ firstChunk' = ResWrite(c, "blank")
  /\ UNCHANGED <<sinks, em, wseq, wdone, lastDone, sk, handlers,
                 exitCode, serverListening>>
  /\ UNCHANGED <<genVars, shutVars, procVars>>

\* A handler that registers the connection and leaves the blank line out.
ConnectNoBlank(c) ==
  /\ Alive
  /\ serverListening
  /\ conn[c] = "new"
  /\ \A d \in Conns : d < c => conn[d] # "new"
  /\ conn' = [conn EXCEPT ![c] = "open"]
  /\ clients' = Append(clients, c)
  /\ UNCHANGED <<sinks, em, wseq, wdone, lastDone, sk, lastBroadcast, firstChunk,
                 handlers, exitCode, serverListening>>
  /\ UNCHANGED <<genVars, shutVars, procVars>>

\* A new observer: headers, the blank line (line 169), then clients.add(res)
\* (line 171), in one run of the request handler.
Connect(c) ==
  /\ Alive
  /\ serverListening
  /\ conn[c] = "new"
  /\ \A d \in Conns : d < c => conn[d] # "new"
  /\ conn' = [conn EXCEPT ![c] = "open"]
  /\ firstChunk' = ResWrite(c, "blank")
  /\ clients' = Append(clients, c)
  /\ UNCHANGED <<sinks, em, wseq, wdone, lastDone, sk, lastBroadcast, handlers,
                 exitCode, serverListening>>
  /\ UNCHANGED <<genVars, shutVars, procVars>>

\* The peer closes its end of the transport.
PeerClose(c) ==
  /\ Alive
  /\ conn[c] = "open"
  /\ conn' = [conn EXCEPT ![c] = "closed"]
  /\ UNCHANGED <<sinks, em, wseq, wdone, lastDone, sk, lastBroadcast, firstChunk, handlers,
                 exitCode, clients, serverListening>>
  /\ UNCHANGED <<genVars, shutVars, procVars>>

\* A close handler that forgets clients.delete(res).
OnCloseKept(c) ==
  /\ Alive
  /\ conn[c] = "closed"
  /\ conn' = [conn EXCEPT ![c] = "gone"]
  /\ UNCHANGED <<sinks, em, wseq, wdone, lastDone, sk, lastBroadcast, firstChunk, handlers,
                 exitCode, serverListening, clients>>
  /\ UNCHANGED <<genVars, shutVars, procVars>>

\* req.on("close"): clients.delete(res).
OnClose(c) ==
  /\ Alive
  /\ conn[c] = "closed"
  /\ conn' = [conn EXCEPT ![c] = "gone"]
  /\ clients' = SelectSeq(clients, LAMBDA d : d # c)
  /\ UNCHANGED <<sinks, em, wseq, wdone, lastDone, sk, lastBroadcast, firstChunk, handlers,
                 exitCode, serverListening>>
  /\ UNCHANGED <<genVars, shutVars, procVars>>

\* ---------------------------------------------------- LiveTailSink.flush
\* The first sink at or after position from that exposes flush (0 when there
\* is none): the others are passed over without an await.
FirstFlush(from) ==
  LET S == {j \in from..N : sinks[j].hasFlush}
  IN IF S = {} THEN 0 ELSE CHOOSE j \in S : \A k \in S : j <= k

FlushCallOn(c, j) == IF j = 0 THEN c ELSE [c EXCEPT ![j].flush = @ + 1]

Flushed(a, j) ==
  IF j = 0 THEN a ELSE Append(a, [sink |-> j, action |-> "flush"])

\* The owner of the sink (the tracer) calls flush(): the loop runs to its
\* first await, or to its end when no sink exposes flush.
FlushCall ==
  /\ Alive
  /\ Len(flushes) < MaxFlushes
  /\ flushes' = Append(flushes,
                  [pc |-> IF FirstFlush(1) = 0 THEN "resolved" ELSE "run",
                   i |-> FirstFlush(1),
                   acted |-> Flushed(<<>>, FirstFlush(1))])
  /\ sdc' = FlushCallOn(sdc, FirstFlush(1))
  /\ UNCHANGED <<sinks, em, wseq, wdone, lastDone, sk, lastBroadcast, firstChunk, handlers,
                 exitCode, runs, stopCalls, tracerCloseCalls, liveCloseCalls>>
  /\ UNCHANGED <<genVars, hubVars, procVars>>

\* The awaited flush settles and the loop goes on to the next sink that
\* exposes flush.
FlushNext(f) ==
  /\ Alive
  /\ flushes[f].pc = "run"
  /\ sinks[flushes[f].i].sd = "ok"
  /\ FirstFlush(flushes[f].i + 1) # 0
  /\ flushes' = [flushes EXCEPT ![f].i = FirstFlush(flushes[f].i + 1),
                                ![f].acted = Flushed(@, FirstFlush(flushes[f].i + 1))]
  /\ sdc' = FlushCallOn(sdc, FirstFlush(flushes[f].i + 1))
  /\ UNCHANGED <<sinks, em, wseq, wdone, lastDone, sk, lastBroadcast, firstChunk, handlers,
                 exitCode, runs, stopCalls, tracerCloseCalls, liveCloseCalls>>
  /\ UNCHANGED <<genVars, hubVars, procVars>>

\* The awaited flush settles and no sink is left: the call resolves.
FlushResolves(f) ==
  /\ Alive
  /\ flushes[f].pc = "run"
  /\ sinks[flushes[f].i].sd = "ok"
  /\ FirstFlush(flushes[f].i + 1) = 0
  /\ flushes' = [flushes EXCEPT ![f].pc = "resolved"]
  /\ UNCHANGED <<sinks, em, wseq, wdone, lastDone, sk, lastBroadcast, firstChunk, handlers,
                 exitCode, runs, stopCalls, tracerCloseCalls, liveCloseCalls, sdc>>
  /\ UNCHANGED <<genVars, hubVars, procVars>>

\* The awaited flush throws: the await rethrows, the loop is left and the
\* call rejects.
FlushThrows(f) ==
  /\ Alive
  /\ flushes[f].pc = "run"
  /\ sinks[flushes[f].i].sd = "throw"
  /\ flushes' = [flushes EXCEPT ![f].pc = "rejected"]
  /\ UNCHANGED <<sinks, em, wseq, wdone, lastDone, sk, lastBroadcast, firstChunk, handlers,
                 exitCode, runs, stopCalls, tracerCloseCalls, liveCloseCalls, sdc>>
  /\ UNCHANGED <<genVars, hubVars, procVars>>

\* ---------------------------------------------------- LiveTailSink.close
\* The first sink at or after position from that exposes close or flush
\* (0 when there is none): the others are passed over without an await.
FirstCap(from) ==
  LET S == {j \in from..N : sinks[j].hasClose \/ sinks[j].hasFlush}
  IN IF S = {} THEN 0 ELSE CHOOSE j \in S : \A k \in S : j <= k

\* The shutdown action LiveTailSink.close takes on sink j: close when the
\* sink exposes it (continue, line 108), otherwise flush.
ShutdownAction(j) == IF sinks[j].hasClose THEN "close" ELSE "flush"

\* The actions a call has taken so far, with the one on sink j added.
Acted(a, j) ==
  IF j = 0 THEN a ELSE Append(a, [sink |-> j, action |-> ShutdownAction(j)])

\* close when the sink exposes it, otherwise flush.
ShutdownCall(c, j) ==
  IF j = 0 THEN c
  ELSE IF sinks[j].hasClose
  THEN [c EXCEPT ![j].close = @ + 1]
  ELSE [c EXCEPT ![j].flush = @ + 1]

\* ------------------------------------------------------- handleShutdown
Signals == {"SIGINT", "SIGTERM"}

\* A handler that reports a failed teardown in the exit status.
ExitStatusFromOutcome(failed) == IF failed THEN 1 ELSE 0

\* .finally(() => process.exit(0)), whether onShutdown resolved or rejected.
ExitStatusOf(failed) == 0

Exit(failed) ==
  /\ proc' = "exited"
  /\ exitStatus' = ExitStatusOf(failed)

\* A termination signal.  Before handleShutdown has run (line 143) the
\* default disposition ends the process.  After it the handler (the same
\* closure for SIGINT and SIGTERM) calls onShutdown: stopDemo(), then
\* tracer.close() up to its first await.
Signal(sig) ==
  /\ Alive
  /\ Len(runs) < MaxSignals
  /\ \/ /\ ~handlers
        /\ proc' = "killed"
        /\ UNCHANGED <<timerArmed, runs, stopCalls, tracerCloseCalls, sdc>>
     \/ /\ handlers
        /\ timerArmed' = FALSE
        /\ stopCalls' = stopCalls + 1
        /\ tracerCloseCalls' = tracerCloseCalls + 1
        /\ runs' = Append(runs, [pc |-> "tracer.close", i |-> FirstCap(1),
                                 own |-> FALSE,
                                 acted |-> Acted(<<>>, FirstCap(1)),
                                 did |-> <<"stopDemo", "tracer.close">>])
        /\ sdc' = ShutdownCall(sdc, FirstCap(1))
        /\ UNCHANGED proc
  /\ UNCHANGED <<sinks, em, inFlight, seq, lastTick, started, env, period,
                 handlers, exitCode, exitStatus,
                 wseq, wdone, lastDone, sk, lastBroadcast, firstChunk, liveCloseCalls,
                 flushes>>
  /\ UNCHANGED hubVars

\* The awaited close (or flush) of a sink settles and the loop goes on.
CloseNext(r) ==
  /\ Alive
  /\ runs[r].pc = "tracer.close"
  /\ runs[r].i >= 1
  /\ sinks[runs[r].i].sd = "ok"
  /\ FirstCap(runs[r].i + 1) # 0
  /\ runs' = [runs EXCEPT ![r].i = FirstCap(runs[r].i + 1),
                          ![r].acted = Acted(@, FirstCap(runs[r].i + 1))]
  /\ sdc' = ShutdownCall(sdc, FirstCap(runs[r].i + 1))
  /\ UNCHANGED <<sinks, em, wseq, wdone, lastDone, sk, lastBroadcast, firstChunk, handlers,
                 exitCode, stopCalls, tracerCloseCalls, liveCloseCalls, flushes>>
  /\ UNCHANGED <<genVars, hubVars, procVars>>

\* The awaited close (or flush) throws: LiveTailSink.close rejects, so does
\* tracer.close, so does onShutdown at line 145; the handler logs and exits.
CloseThrows(r) ==
  /\ Alive
  /\ runs[r].pc = "tracer.close"
  /\ runs[r].i >= 1
  /\ sinks[runs[r].i].sd = "throw"
  /\ runs' = [runs EXCEPT ![r].pc = "rejected"]
  /\ Exit(TRUE)
  /\ UNCHANGED <<sinks, em, wseq, wdone, lastDone, sk, lastBroadcast, firstChunk, handlers,
                 exitCode, stopCalls, tracerCloseCalls, liveCloseCalls, sdc,
                 flushes>>
  /\ UNCHANGED <<genVars, hubVars>>

\* LiveTailSink.close of run r has resolved: no sink is left to await.
CloseSettled(r) ==
  IF runs[r].i = 0 THEN TRUE
  ELSE sinks[runs[r].i].sd = "ok" /\ FirstCap(runs[r].i + 1) = 0

\* A shutdown callback that does not wait for tracer.close.
NoAwaitTracerClose(r) == TRUE

\* await tracer.close() (line 145): the callback goes on when it has resolved.
AwaitTracerClose(r) == CloseSettled(r)

\* tracer.close resolves; live.close() is called and calls server.close(cb):
\* the server stops listening, cb waits for the open connections to end.
TracerClosed(r) ==
  /\ Alive
  /\ runs[r].pc = "tracer.close"
  /\ AwaitTracerClose(r)
  /\ liveCloseCalls' = liveCloseCalls + 1
  /\ runs' = [runs EXCEPT ![r].pc = "live.close",
                          ![r].own = serverListening,
                          ![r].did = Append(@, "live.close")]
  /\ serverListening' = FALSE
  /\ UNCHANGED <<sinks, em, wseq, wdone, lastDone, sk, lastBroadcast, firstChunk, handlers,
                 exitCode, stopCalls, tracerCloseCalls, sdc, clients, conn,
                 flushes>>
  /\ UNCHANGED <<genVars, procVars>>

\* A close that resolves without ending the clients and without clearing
\* the set.
ServerClosedSetKept(r) ==
  /\ Alive
  /\ runs[r].pc = "live.close"
  /\ \A c \in Conns : conn[c] # "open"
  /\ IF runs[r].own
     THEN /\ runs' = [runs EXCEPT ![r].pc = "done"]
          /\ Exit(FALSE)
     ELSE /\ runs' = [runs EXCEPT ![r].pc = "rejected"]
          /\ Exit(TRUE)
  /\ UNCHANGED <<sinks, em, wseq, wdone, lastDone, sk, lastBroadcast, firstChunk, handlers,
                 exitCode, stopCalls, tracerCloseCalls, liveCloseCalls, sdc,
                 serverListening, flushes, clients, conn>>
  /\ UNCHANGED genVars

\* No connection is open any more, so the server emits close and cb runs.
\* The call that closed the listening server resolves, ends every client and
\* clears the set; a call on a server already closed gets
\* ERR_SERVER_NOT_RUNNING and rejects.  Either way the handler exits.
ServerClosed(r) ==
  /\ Alive
  /\ runs[r].pc = "live.close"
  /\ \A c \in Conns : conn[c] # "open"
  /\ IF runs[r].own
     THEN /\ conn' = [c \in Conns |-> IF c \in Range(clients) THEN "ended" ELSE conn[c]]
          /\ clients' = <<>>
          /\ runs' = [runs EXCEPT ![r].pc = "done"]
          /\ Exit(FALSE)
     ELSE /\ runs' = [runs EXCEPT ![r].pc = "rejected"]
          /\ Exit(TRUE)
          /\ UNCHANGED <<clients, conn>>
  /\ UNCHANGED <<sinks, em, wseq, wdone, lastDone, sk, lastBroadcast, firstChunk, handlers,
                 exitCode, stopCalls, tracerCloseCalls, liveCloseCalls, sdc,
                 serverListening, flushes>>
  /\ UNCHANGED genVars

\* ---------------------------------------------------------------- Next
Emit ==
  \/ \E t \in Emitters : SinkWriteNext(t)
  \/ \E t \in Emitters : SinkWriteThrows(t)
  \/ \E t \in Emitters : NextTracerCall(t)
  \/ \E t \in Emitters : EmissionDone(t)

Observers ==
  \/ \E c \in Conns : Connect(c)
  \/ \E c \in Conns : PeerClose(c)
  \/ \E c \in Conns : OnClose(c)

Teardown ==
  \/ \E r \in DOMAIN runs : CloseNext(r)
  \/ \E r \in DOMAIN runs : CloseThrows(r)
  \/ \E r \in DOMAIN runs : TracerClosed(r)
  \/ \E r \in DOMAIN runs : ServerClosed(r)

Flushing ==
  \/ FlushCall
  \/ \E f \in DOMAIN flushes : FlushNext(f)
  \/ \E f \in DOMAIN flushes : FlushResolves(f)
  \/ \E f \in DOMAIN flushes : FlushThrows(f)

Next ==
  \/ Emit
  \/ Tick
  \/ Observers
  \/ \E sig \in Signals : Signal(sig)
  \/ Teardown
  \/ Flushing

Spec == Init /\ [][Next]_vars

\* ------------------------------------------------- the subsystems alone
\* The multiplexer under the generator: any list of sinks, no observer
\* connects and no signal arrives.
NextMux == Emit \/ Tick

SpecMux == Init /\ [][NextMux]_vars

\* The hub under the generator, with the sink list main() builds (one file
\* sink) and writes that succeed: observers come and go.
InitHub == Init /\ sinks = <<Buffered>>

NextHub ==
  \/ \E t \in Emitters : NextTracerCall(t)
  \/ \E t \in Emitters : EmissionDone(t)
  \/ Tick
  \/ Observers

SpecHub == InitHub /\ [][NextHub]_vars

\* The multiplexer and the hub together: observers come and go while the
\* sink list is the one main() builds, or one whose first or second sink
\* fails every write.
LiveSinkLists == {<<Buffered>>, <<ThrowOnWrite>>, <<Buffered, ThrowOnWrite>>}

InitLive == Init /\ sinks \in LiveSinkLists

NextLive == Emit \/ Tick \/ Observers

SpecLive == InitLive /\ [][NextLive]_vars

\* The hub during the startup emission, before the first tick: observers
\* come and go while main()'s emission makes its broadcasts.
NextObservers ==
  \/ \E t \in Emitters : NextTracerCall(t)
  \/ \E t \in Emitters : EmissionDone(t)
  \/ Observers

SpecObservers == InitHub /\ [][NextObservers]_vars

\* The multiplexer and the hub when a sink fails every write, the first or
\* the second of the list: no write call resolves, every emission ends at
\* its first event, and the timer goes on starting the next one.
FailingSinkLists == {<<ThrowOnWrite>>, <<Buffered, ThrowOnWrite>>}

InitFailing == Init /\ sinks \in FailingSinkLists

NextFailing ==
  \/ \E t \in Emitters : SinkWriteNext(t)
  \/ \E t \in Emitters : SinkWriteThrows(t)
  \/ Tick
  \/ Observers

SpecFailing == InitFailing /\ [][NextFailing]_vars

\* The generator over a sink whose writes fail now and then, alone or behind
\* a sink that never fails: an emission can end at any of its tracer calls.
FlakySinkLists == {<<Flaky>>, <<Buffered, Flaky>>}

InitFlaky == Started(FlakySinkLists)

SpecFlaky == InitFlaky /\ [][NextMux]_vars

\* The generator over the same sink lists, without observers: its emissions
\* succeed, or fail at the first or at the second sink.
SpecGen == InitLive /\ [][NextMux]_vars

\* The bridge once main() has returned: the startup emission has resolved
\* before the first tick and before any observer connected, and line 143 has
\* registered the signal handlers.  The sink list is the one main() builds,
\* a single FileSink (line 125): its writes have succeeded, or main() would
\* not have got there; its close may still fail.
MainSinkLists == {<<Buffered>>, <<ThrowOnClose>>}

AllWritten(n) == [calls |-> n, last |-> n, high |-> n]

Serving(lists) ==
  /\ sinks \in lists
  /\ em = [t \in Emitters |->
             IF t = "main"
             THEN [st |-> "done", seq |-> 0, step |-> Len(EmitSteps), i |-> 0,
                   ticket |-> Len(EmitSteps) - 1,
                   calls |-> [j \in 1..Len(sinks) |-> 1]]
             ELSE Idle]
  /\ inFlight = FALSE
  /\ seq = 1
  /\ timerArmed = TRUE
  /\ lastTick = "none"
  /\ started = <<0>>
  /\ env = Unset
  /\ period = timerPeriod(Unset)
  /\ handlers = TRUE
  /\ exitCode = 0
  /\ proc = "running"
  /\ exitStatus = -1
  /\ wseq = Len(EmitSteps) - 1
  /\ wdone = Len(EmitSteps) - 1
  /\ lastDone = [ticket |-> Len(EmitSteps) - 1,
                 calls |-> [j \in 1..Len(sinks) |-> 1], raised |-> FALSE]
  /\ sk = [j \in 1..Len(sinks) |-> AllWritten(Len(EmitSteps) - 1)]
  /\ sdc = [j \in 1..Len(sinks) |-> [close |-> 0, flush |-> 0]]
  /\ clients = <<>>
  /\ conn = [c \in Conns |-> "new"]
  /\ firstChunk = [c \in Conns |-> "none"]
  /\ lastBroadcast =
       [ev |-> Len(EmitSteps) - 1, written |-> <<>>, delivered |-> {}]
  /\ serverListening = TRUE
  /\ runs = <<>>
  /\ flushes = <<>>
  /\ stopCalls = 0
  /\ tracerCloseCalls = 0
  /\ liveCloseCalls = 0

InitServing == Serving(MainSinkLists)

TeardownServing ==
  \/ \E r \in DOMAIN runs : CloseThrows(r)
  \/ \E r \in DOMAIN runs : TracerClosed(r)
  \/ \E r \in DOMAIN runs : ServerClosed(r)

NextServing ==
  \/ \E t \in Emitters : NextTracerCall(t)
  \/ \E t \in Emitters : EmissionDone(t)
  \/ Tick
  \/ Observers
  \/ \E sig \in Signals : Signal(sig)
  \/ TeardownServing

SpecServing == InitServing /\ [][NextServing]_vars

\* The same, with the runtime running every callback that is ready: a
\* settled promise's continuation, the server's close callback, a request's
\* close event.  Signals, new connections and peers closing are up to the
\* environment.
FairServing ==
  /\ SpecServing
  /\ WF_vars(\E t \in Emitters : NextTracerCall(t))
  /\ WF_vars(\E t \in Emitters : EmissionDone(t))
  /\ WF_vars(\E c \in Conns : OnClose(c))
  /\ WF_vars(TeardownServing)

\* The start of the process, for every value of the interval variable: unset,
\* every text of at most MaxLen of the characters below, and some longer
\* numerals around the largest delay a timer takes.
EnvChars == {"0", "3", "9", "-", " ", "x"}

LongTexts ==
  {<<"2", "0", "0", "0">>,
   <<"2", "1", "4", "7", "4", "8", "3", "6", "4", "7">>,
   <<"2", "1", "4", "7", "4", "8", "3", "6", "4", "8">>,
   <<"3", "0", "0", "0", "0", "0", "0", "0", "0", "0">>,
   <<"-", "3", "0", "0", "0", "0", "0", "0", "0", "0", "0">>,
   InfinityText}

EnvValues ==
  {Unset} \cup {Text(t) : t \in UNION {[1..n -> EnvChars] : n \in 0..MaxLen}}
          \cup {Text(t) : t \in LongTexts}

InitStart ==
  /\ sinks = <<Buffered>>
  /\ em = [t \in Emitters |-> Idle]
  /\ inFlight = FALSE
  /\ seq = 0
  /\ timerArmed = FALSE
  /\ lastTick = "none"
  /\ started = <<>>
  /\ env \in EnvValues
  /\ period = 0
  /\ handlers = FALSE
  /\ exitCode = 0
  /\ proc = "running"
  /\ exitStatus = -1
  /\ wseq = 0
  /\ wdone = 0
  /\ lastDone = [ticket |-> 0, calls |-> <<>>, raised |-> FALSE]
  /\ sk = [j \in 1..Len(sinks) |-> [calls |-> 0, last |-> 0, high |-> 0]]
  /\ sdc = [j \in 1..Len(sinks) |-> [close |-> 0, flush |-> 0]]
  /\ clients = <<>>
  /\ conn = [c \in Conns |-> "new"]
  /\ firstChunk = [c \in Conns |-> "none"]
  /\ lastBroadcast = [ev |-> 0, written |-> <<>>, delivered |-> {}]
  /\ serverListening = FALSE
  /\ runs = <<>>
  /\ flushes = <<>>
  /\ stopCalls = 0
  /\ tracerCloseCalls = 0
  /\ liveCloseCalls = 0

\* main() up to its first await: the interval is read (line 121), the server
\* listens, the timer is armed (line 138, the counter starting at 1) and the
\* startup emission makes its first tracer call (line 141).
main ==
  /\ Alive
  /\ ~timerArmed
  /\ period = 0
  /\ serverListening' = TRUE
  /\ period' = timerPeriod(env)
  /\ timerArmed' = TRUE
  /\ seq' = 1
  /\ started' = <<0>>
  /\ write("main", 0, 1)
  /\ UNCHANGED <<sinks, inFlight, lastTick, env, handlers, exitCode, wdone,
                 lastDone, sdc, clients, conn>>
  /\ UNCHANGED <<shutVars, procVars>>

SpecStart == InitStart /\ [][main]_vars

\* The multiplexer's flush and close over any list of sinks whose writes
\* succeed (with a sink whose write fails main() rejects at line 141 and
\* never registers the handlers): no observer, no timer emission.
WritableSinkLists ==
  UNION {[1..n -> {Buffered, ThrowOnClose, FlushOnly, WriteOnly}] : n \in 0..MaxSinks}

InitSinks == Serving(WritableSinkLists)

NextSinks ==
  \/ \E sig \in Signals : Signal(sig)
  \/ Teardown
  \/ Flushing

SpecSinks == InitSinks /\ [][NextSinks]_vars

\* The multiplexer under all three of its methods at once: the timer's
\* emissions write while the tracer flushes and a signal closes, over two
\* sinks whose shutdown actions succeed or fail at the second one.
FrameSinkLists == {<<Buffered, FlushOnly>>, <<Buffered, ThrowOnClose>>}

InitFrame == Serving(FrameSinkLists)

NextFrame ==
  \/ \E t \in Emitters : SinkWriteNext(t)
  \/ \E t \in Emitters : NextTracerCall(t)
  \/ \E t \in Emitters : EmissionDone(t)
  \/ Tick
  \/ \E sig \in Signals : Signal(sig)
  \/ Teardown
  \/ Flushing

SpecFrame == InitFrame /\ [][NextFrame]_vars

\* ======================================================== the claims
Running(t) == em[t].st = "run"
PendingOn(j) == {t \in Emitters : Running(t) /\ em[t].i = j}
Rejected(r, step) ==
  /\ runs[r].pc = "rejected"
  /\ runs[r].did[Len(runs[r].did)] = step

\* C1  Fan-out completeness: when a call of LiveTailSink.write has settled,
\* each of the N sinks' write was invoked exactly once for it, whether or
\* not a sink's write threw.
FanOutComplete ==
  lastDone.ticket # 0 => \A j \in 1..N : lastDone.calls[j] = 1

\* C2  Failure isolation on write: with sinks [A, B], A's write always
\* throwing and B's always succeeding, no write call rejects and B has
\* received every event of the write calls settled so far.
WriteFailureIsolated ==
  (N = 2 /\ sinks[1].wr = "throw" /\ sinks[2].wr = "ok")
    => /\ ~lastDone.raised
       /\ sk[2].calls >= wdone
       /\ sk[2].calls <= wseq

\* C3  Per-sink ordering: every sink is handed the events in the order of the
\* write calls, and no sink has two writes unsettled at once, also with the
\* startup emission and a timer emission writing concurrently.
PerSinkOrder ==
  \A j \in 1..N :
    /\ sk[j].last = sk[j].high
    /\ Cardinality(PendingOn(j)) <= 1

\* C4  Broadcast failure tolerance: a broadcast over a set holding a
\* connection whose write fails does not raise (the write call that made it
\* goes on), reaches every healthy connection of the set, and leaves the
\* failing connection out of the set.
BroadcastTolerant ==
  [][(/\ wseq' # wseq
      /\ \E c \in Range(clients) : conn[c] # "open"
      /\ \E c \in Range(clients) : conn[c] = "open")
       => /\ \E t \in Emitters : Running(t)' /\ em'[t].ticket = wseq'
          /\ \A c \in Range(clients) :
               IF conn[c] = "open"
               THEN c \in lastBroadcast'.delivered
               ELSE c \notin Range(clients')]_vars

\* C5  Generator overlap prevention: at most one emitSampleTrace is in flight
\* at any time, the startup emission of main included.
NoOverlap == Cardinality({t \in Emitters : Running(t)}) <= 1

\* C6  Idempotent shutdown: however many signals arrive, stopDemo,
\* tracer.close and live.close are each called at most once, and exactly once
\* by the time a complete teardown has exited.
ShutdownOnce ==
  /\ stopCalls <= 1
  /\ tracerCloseCalls <= 1
  /\ liveCloseCalls <= 1
  /\ (\E r \in DOMAIN runs : runs[r].pc = "done")
       => stopCalls = 1 /\ tracerCloseCalls = 1 /\ liveCloseCalls = 1

\* C7  Shutdown step failure isolation: when tracer.close has rejected in a
\* run of the shutdown callback, that run still goes on to live.close, and
\* by the time the process exits every observer connection has been ended.
TeardownIsolated ==
  \A r \in DOMAIN runs :
    Rejected(r, "tracer.close")
      => /\ liveCloseCalls >= 1
         /\ proc = "exited" =>
              clients = <<>> /\ \A c \in Conns : conn[c] # "open"

\* C8  Shutdown termination: once a signal has started the teardown, the
\* process eventually exits, whatever the observers do.
ShutdownTerminates == (runs # <<>>) ~> (proc = "exited")

\* C9  Shutdown ordering: in every run of the shutdown callback the steps are
\* stopDemo, tracer.close, live.close in that order; live.close is called only
\* when that run's tracer.close has resolved, and no tracer.close or
\* live.close is ever called while the timer is still armed.
ShutdownOrder ==
  /\ (tracerCloseCalls > 0 \/ liveCloseCalls > 0) => ~timerArmed /\ stopCalls > 0
  /\ \A r \in DOMAIN runs :
       /\ \/ runs[r].did = <<"stopDemo", "tracer.close">>
          \/ runs[r].did = <<"stopDemo", "tracer.close", "live.close">>
       /\ runs[r].did[Len(runs[r].did)] = "live.close"
            => IF runs[r].i = 0 THEN TRUE
               ELSE /\ sinks[runs[r].i].sd = "ok"
                    /\ \A j \in (runs[r].i + 1)..N :
                         ~sinks[j].hasClose /\ ~sinks[j].hasFlush

\* A complete teardown: the sink was closed, then the hub.
ShutdownOrderWitness ==
  \E r \in DOMAIN runs :
    /\ runs[r].pc = "done"
    /\ runs[r].i >= 1
    /\ sdc[runs[r].i].close > 0

\* C10  Exit status: when the shutdown handler has made the process exit, the
\* status is 0, after a clean teardown and after a failed one.
ExitStatusZero == proc = "exited" => exitStatus = 0

\* The handler has exited after a teardown step failed.
ExitStatusZeroWitness ==
  /\ proc = "exited"
  /\ \E r \in DOMAIN runs : runs[r].pc = "rejected"

\* C11  Observer set invariant: the set of observer connections never holds
\* a connection the peer has closed, so no broadcast ever writes to a
\* peer-closed connection.
NoWriteToClosed ==
  [][wseq' # wseq => \A c \in Range(clients) : conn[c] # "closed"]_vars

\* C12  Broadcast-first: every call of LiveTailSink.write has made its
\* broadcast by the time a sink is handed the event, so the broadcast of a
\* call never waits for a sink: it has been made also while a sink's write
\* is unsettled and when it failed.  The payload is written to every
\* connection of the set at that moment and reaches each one whose
\* transport is open.
BroadcastFirst ==
  /\ [](/\ lastBroadcast.ev = wseq
        /\ \A j \in 1..N : sk[j].high <= lastBroadcast.ev)
  /\ [][wseq' # wseq
         => /\ lastBroadcast'.ev = wseq'
            /\ lastBroadcast'.written = clients
            /\ \A c \in Range(clients) :
                 conn[c] = "open" => c \in lastBroadcast'.delivered]_vars

\* A write call has rejected because a sink's write threw, and its event had
\* reached an observer.
BroadcastFirstWitness ==
  /\ lastDone.raised
  /\ lastBroadcast.ev = lastDone.ticket
  /\ lastBroadcast.delivered # {}

\* C13  Live delivery without replay: a broadcast writes one payload, that
\* of the event just handed to the multiplexer, exactly once to each
\* connection of the set at that moment and to no other, and it reaches each
\* of them whose transport is open; nothing but the broadcast of a new
\* event delivers anything, so a connection registered afterwards never
\* gets an earlier event.
LiveNoReplay ==
  /\ [](\A c \in Conns : conn[c] = "new" => c \notin Range(lastBroadcast.written))
  /\ [][/\ wseq' # wseq
            => /\ \A c \in Range(clients) :
                    /\ Cardinality({j \in DOMAIN lastBroadcast'.written :
                                      lastBroadcast'.written[j] = c}) = 1
                    /\ conn[c] = "open" => c \in lastBroadcast'.delivered
               /\ Range(lastBroadcast'.written) = Range(clients)
               /\ lastBroadcast'.delivered \subseteq Range(clients)
        /\ lastBroadcast' # lastBroadcast
            => /\ wseq' = wseq + 1
               /\ lastBroadcast'.ev = wseq']_vars

\* The last event reached one observer, and another one has registered
\* since.
LiveNoReplayWitness ==
  /\ lastBroadcast.delivered # {}
  /\ \E d \in Range(clients) :
       conn[d] = "open" /\ d \notin Range(lastBroadcast.written)

\* What the multiplexer's close owes each sink, in registration order: close
\* to a sink that exposes close, flush to one that exposes flush only,
\* nothing to the others.
CloseDispatch ==
  SelectSeq([j \in 1..N |->
               [sink |-> j,
                action |-> IF sinks[j].hasClose THEN "close"
                           ELSE IF sinks[j].hasFlush THEN "flush" ELSE "none"]],
            LAMBDA x : x.action # "none")

\* What the multiplexer's flush owes each sink: flush to every sink that
\* exposes it.
FlushDispatch ==
  SelectSeq([j \in 1..N |->
               [sink |-> j,
                action |-> IF sinks[j].hasFlush THEN "flush" ELSE "none"]],
            LAMBDA x : x.action # "none")

IsPrefix(a, b) == Len(a) <= Len(b) /\ \A k \in 1..Len(a) : a[k] = b[k]

\* C14  Close capability dispatch: a call of LiveTailSink.close takes, for
\* each sink in registration order, exactly one shutdown action: close if
\* the sink exposes close (its flush is then not invoked), otherwise flush
\* if it exposes flush, otherwise nothing.
CloseDispatched ==
  \A r \in DOMAIN runs :
    /\ IsPrefix(runs[r].acted, CloseDispatch)
    /\ runs[r].pc # "tracer.close" => runs[r].acted = CloseDispatch

\* C15  Flush capability dispatch: a call of LiveTailSink.flush invokes
\* flush exactly once on every sink that exposes it, skips the others, and
\* invokes no write and no close.
FlushDispatched ==
  /\ \A f \in DOMAIN flushes :
       /\ IsPrefix(flushes[f].acted, FlushDispatch)
       /\ flushes[f].pc # "run" => flushes[f].acted = FlushDispatch
  /\ runs = <<>> =>
       \A j \in 1..N : sdc[j].close = 0 /\ sk[j].calls = Len(EmitSteps) - 1

\* C16  Close/flush failure isolation: when a sink's close (or flush) has
\* thrown in a call of LiveTailSink.close (or flush), every other sink,
\* those registered after it included, still gets its shutdown action (its
\* flush) from that call.
CloseFlushIsolated ==
  /\ \A r \in DOMAIN runs :
       Rejected(r, "tracer.close") => runs[r].acted = CloseDispatch
  /\ \A f \in DOMAIN flushes :
       flushes[f].pc = "rejected" => flushes[f].acted = FlushDispatch

\* C17  Stop handle: once stopDemo has been called no tick starts a new
\* emission, and the emission in flight at that moment is not interrupted:
\* the stop leaves it as it is, only its own completion ends it, and the
\* process does not go away under it.
StopHandle ==
  /\ [](proc = "exited" => ~Running("timer"))
  /\ [][/\ stopCalls > 0 => seq' = seq /\ (~inFlight => ~inFlight')
        /\ stopCalls' # stopCalls => em' = em /\ inFlight' = inFlight
        /\ (stopCalls > 0 /\ inFlight /\ ~inFlight')
             => em["timer"].step = Len(EmitSteps)]_vars

\* C18  Generator failure recovery: when an emission the timer started ends,
\* by success or by failure, the guard is cleared, nothing is propagated
\* (the process runs on, its exit code untouched) and the timer stays armed;
\* the guard is set only while that emission runs, and whenever it is clear
\* the next tick starts a new emission.
GuardRecovers ==
  /\ [](/\ inFlight <=> Running("timer")
        /\ (Alive /\ timerArmed /\ ~inFlight /\ seq <= MaxSeq)
             => ENABLED (Tick /\ inFlight'))
  /\ [][(Running("timer") /\ ~Running("timer")')
         => /\ ~inFlight'
            /\ timerArmed'
            /\ Alive'
            /\ exitCode' = exitCode]_vars

\* An emission of the timer has failed, and the next tick has started the
\* one after it.
GuardRecoversWitness ==
  /\ lastDone.raised
  /\ Running("timer")
  /\ em["timer"].seq = 2
  /\ em["timer"].ticket > lastDone.ticket

\* C19  Hub shutdown: once the hub's close has completed, every connection
\* that was in the observer set has been ended and the set is empty; the
\* server stopped listening when close was called, and from then on no
\* connection is accepted or added to the set.
HubShutdown ==
  /\ [](\A r \in DOMAIN runs :
          runs[r].pc = "done"
            => /\ clients = <<>>
               /\ ~serverListening
               /\ \A c \in Conns : conn[c] \in {"new", "gone", "ended"})
  /\ [][/\ \A r \in DOMAIN runs' :
             (runs'[r].pc = "done" /\ runs[r].pc # "done")
               => \A c \in Range(clients) : conn'[c] = "ended"
        /\ ~serverListening
             => /\ ~serverListening'
                /\ Range(clients') \subseteq Range(clients)
                /\ \A c \in Conns : conn[c] = "new" => conn'[c] = "new"]_vars

\* The hub's close has completed and has ended a connection that was still
\* in the set, while another one was never accepted.
HubShutdownWitness ==
  /\ \E r \in DOMAIN runs : runs[r].pc = "done"
  /\ \E c \in Conns : conn[c] = "ended"
  /\ \E c \in Conns : conn[c] = "new"

\* C20  Skipped ticks are dropped, not queued: while the guard is set no
\* step starts an emission or moves the sequence counter, and a tick that is
\* skipped changes nothing but the record of the last tick; an emission of
\* the timer starts only in a tick taken with the guard clear, one emission
\* for that tick with the next sequence number, and the end of an emission
\* starts nothing.
SkippedTicksDropped ==
  [][/\ inFlight
         => /\ seq' = seq
            /\ Running("timer")' => em'["timer"].seq = em["timer"].seq
     /\ (lastTick' = "skipped" /\ lastTick # "skipped")
         => /\ inFlight /\ inFlight'
            /\ em' = em /\ seq' = seq /\ wseq' = wseq
     /\ (Running("timer")' /\ em'["timer"].seq # em["timer"].seq)
         => /\ ~inFlight /\ inFlight'
            /\ lastTick' = "started"
            /\ em'["timer"].seq = seq
            /\ seq' = seq + 1
            /\ wseq' = wseq + 1
     /\ (Running("timer") /\ ~Running("timer")')
         => wseq' = wseq /\ seq' = seq]_vars

\* A tick was skipped during emission 1, which is still running; the
\* counter still holds the number of the next emission.
SkippedTicksDroppedWitness ==
  /\ lastTick = "skipped"
  /\ Running("timer")
  /\ em["timer"].seq = 1
  /\ seq = 2

\* C21  Sequence numbers: the startup emission is the first one started and
\* carries 0; the k-th emission the timer starts carries k, so that the
\* numbers in order of start are 0, 1, 2, ... without reuse and without a
\* gap, also when ticks were skipped; each emission keeps its number.
SequenceNumbers ==
  /\ \A k \in 1..Len(started) : started[k] = k - 1
  /\ Len(started) >= 1
  /\ em["main"].seq = started[1]
  /\ Running("timer")
       => Len(started) >= 2 /\ em["timer"].seq = started[Len(started)]

\* The timer has started its second emission, and a tick has been skipped
\* while it runs.
SequenceNumbersWitness ==
  /\ started = <<0, 1, 2>>
  /\ Running("timer")
  /\ lastTick = "skipped"

\* C22  Interval clamping: the period of the timer is
\* max(configuredIntervalMs, 250), where configuredIntervalMs is the numeric
\* value of the variable, or 2000 when it is unset, empty or not a finite
\* number; the period is never below 250 ms.
IntervalClamped ==
  timerArmed
    => /\ period >= FloorMs
       /\ Small(period) = Max(readNumber(env, DefaultIntervalMs), FloorMs)

\* C23  Safe interleaving of set mutation with broadcast: however connects
\* and disconnects interleave with broadcasts, a broadcast runs over the set
\* as one step (no connect or disconnect falls inside it), does not fail
\* (the write call that made it goes on), writes the event exactly once to
\* every connection registered at that step, which reaches each one whose
\* transport is open, and writes nothing to a connection removed before.
BroadcastAtomic ==
  [][wseq' # wseq
       => /\ clients' = clients
          /\ conn' = conn
          /\ \E t \in Emitters : Running(t)' /\ em'[t].ticket = wseq'
          /\ lastBroadcast'.written = clients
          /\ \A c \in Range(clients) :
               /\ Cardinality({j \in DOMAIN clients : clients[j] = c}) = 1
               /\ conn[c] = "open" => c \in lastBroadcast'.delivered
          /\ \A c \in Conns :
               conn[c] = "gone"
                 => /\ c \notin Range(lastBroadcast'.written)
                    /\ c \notin lastBroadcast'.delivered]_vars

\* Connection 1 registered first and was removed before the last broadcast,
\* which reached connection 2.
BroadcastAtomicWitness ==
  /\ conn[1] = "gone"
  /\ 1 \notin Range(lastBroadcast.written)
  /\ 2 \in lastBroadcast.delivered

\* C24: the GET handler writes the blank line before it adds the connection
\* to the client set, so a registered connection has always been written the
\* blank line already and the first chunk of body on any connection is that
\* blank line; the step that registers a connection writes it no payload,
\* and a payload is written only to a connection that was registered, and
\* had its blank line, before the broadcast began.
BlankLineFirst ==
  /\ [](\A c \in Conns :
          /\ firstChunk[c] \in {"none", "blank"}
          /\ c \in Range(clients) => firstChunk[c] = "blank")
  /\ [][\A c \in Conns :
          /\ (c \in Range(clients') /\ c \notin Range(clients))
               => /\ firstChunk[c] = "none"
                  /\ firstChunk'[c] = "blank"
                  /\ wseq' = wseq
                  /\ lastBroadcast' = lastBroadcast
                  /\ c \notin Range(lastBroadcast.written)
          /\ (wseq' # wseq /\ c \in Range(lastBroadcast'.written))
               => /\ c \in Range(clients)
                  /\ firstChunk[c] = "blank"
                  /\ lastBroadcast'.ev = wseq']_vars

BlankLineFirstWitness ==
  /\ firstChunk[1] = "blank"
  /\ 1 \in lastBroadcast.delivered
  /\ lastBroadcast.ev > 1
  /\ firstChunk[2] = "none"

\* C25  No write after close: once a run of the shutdown callback has invoked
\* close, or flush in its place, on a sink, no later step invokes write on
\* that sink, the remaining steps of an emission in flight included.
NoWriteAfterClose ==
  [][\A j \in 1..N :
       (\E r \in DOMAIN runs : \E k \in DOMAIN runs[r].acted :
          runs[r].acted[k].sink = j)
         => sk'[j].calls = sk[j].calls]_vars

\* The tracer calls an emission issues when it goes on from call k to call
\* k2, and the ones the code of emitSampleTrace allows in one go: spanStart
\* is issued with the user message, every other call alone.
IssuedFrom(k, k2) == SubSeq(EmitSteps, k + 1, k2)

StepOrder ==
  [message_system |-> <<"span_start", "message_user">>,
   message_user |-> <<"tool_call">>,
   tool_call |-> <<"tool_result">>,
   tool_result |-> <<"usage">>,
   usage |-> <<"span_end">>]

\* C26  Emission step order: an emission starts with the system message; it
\* goes on only when the call it awaits has resolved, from the system
\* message to span start and the user message, then tool call, tool result,
\* usage and span end, one after the other; it completes only from span end;
\* and when the call it awaits fails it issues nothing more: it ends at that
\* step, and a failed startup emission never moves again.
EmissionStepOrder ==
  [][\A t \in Emitters :
       LET e == em[t]
           f == em'[t]
       IN /\ (e.st # "run" /\ f.st = "run")
               => /\ e.st = "idle"
                  /\ f.step = 1
                  /\ EmitSteps[f.step] = "message_system"
          /\ (e.st = "run" /\ f.st = "run" /\ f.step # e.step)
               => /\ lastDone' = Settled(e, FALSE)
                  /\ f.seq = e.seq
                  /\ EmitSteps[e.step] \in DOMAIN StepOrder
                  /\ IssuedFrom(e.step, f.step) = StepOrder[EmitSteps[e.step]]
          /\ (e.st = "run" /\ f.st # "run")
               => /\ lastDone'.ticket = e.ticket
                  /\ wseq' = wseq
                  /\ sk' = sk
                  /\ ~lastDone'.raised
                       => /\ EmitSteps[e.step] = "span_end"
                          /\ e.step = Len(EmitSteps)
                  /\ lastDone'.raised
                       => /\ f.st = IF t = "main" THEN "failed" ELSE "idle"
                          /\ t = "main" => f.step = e.step
          /\ e.st \in {"failed", "done"} => f = e]_vars

\* The second emission of the timer has failed at its tool result, after the
\* first one had completed.
EmissionStepOrderWitness ==
  /\ lastDone.raised
  /\ lastDone.ticket = wseq
  /\ em["timer"].st = "idle"
  /\ em["main"].st = "done"
  /\ started = <<0, 1, 2>>
  /\ wseq = 2 * (Len(EmitSteps) - 1) + 4

\* C27  Fixed sink registration and event immutability: no step of a write,
\* flush or close call changes the sink sequence; a write call hands the
\* broadcast the event it was called with, and every sink it goes on to is
\* handed that same event; a call that resolves was handed to every sink.
SinksFixed ==
  [][/\ sinks' = sinks
     /\ \A t \in Emitters :
          /\ (Running(t)' /\ em'[t].ticket # em[t].ticket)
               => /\ em'[t].ticket = wseq'
                  /\ lastBroadcast'.ev = em'[t].ticket
                  /\ N > 0 => sk'[1].last = em'[t].ticket
          /\ (Running(t) /\ Running(t)' /\ em'[t].ticket = em[t].ticket
                 /\ em'[t].i # em[t].i)
               => /\ sk'[em'[t].i].last = em[t].ticket
                  /\ sk'[em'[t].i].calls = sk[em'[t].i].calls + 1
                  /\ lastBroadcast' = lastBroadcast
     /\ (wdone' # wdone /\ ~lastDone'.raised)
          => lastDone'.calls = [j \in 1..N |-> 1]]_vars

\* Both sinks have been handed the last event of an emission while a flush
\* call and a close call were under way.
SinksFixedWitness ==
  /\ N = 2
  /\ sk[2].last = wseq
  /\ sk[1].last = wseq
  /\ lastBroadcast.ev = wseq
  /\ wseq > Len(EmitSteps)
  /\ Len(flushes) > 0
  /\ Len(runs) > 0
  /\ sdc[1].close > 0

====
